---- MODULE Spec2Model ----
(***************************************************************************)
(* Knowledge-accumulation core of the truck-parking vision pipeline:      *)
(* the label store (load / append / save), the statistics aggregator,     *)
(* and the response extractor, as implemented by                          *)
(*   src/label_training_batch.py  and  src/cv_training_pipeline.py        *)
(* (extractor variant with brace check: src/cv_parking_rag.py).           *)
(***************************************************************************)
EXTENDS Integers, Sequences, FiniteSets, TLC

(***************************************************************************)
(* Bounds of the model.                                                    *)
(***************************************************************************)
MaxTextLen == 5
MaxImages == 4
MaxRuns == 2
LongNoteLen == 101

(***************************************************************************)
(* Python values.  Every value is a record [kind, v] so that values of     *)
(* different Python types can be compared.  A dict is a TLA+ function from *)
(* key strings to values; a str is a sequence of characters.               *)
(***************************************************************************)
PyNone == [kind |-> "none", v |-> 0]
PyInt(n) == [kind |-> "int", v |-> n]
PyStr(s) == [kind |-> "str", v |-> s]
PyBool(b) == [kind |-> "bool", v |-> b]
PyDict(d) == [kind |-> "dict", v |-> d]

GCD(a, b) ==
  LET RECURSIVE g(_, _)
      g(x, y) == IF y = 0 THEN x ELSE g(y, x % y)
  IN g(a, b)

\* the float n/d (d > 0, n >= 0), kept as a reduced fraction
PyFloat(n, d) ==
  LET c == GCD(n, d) IN [kind |-> "float", v |-> <<n \div c, d \div c>>]

EmptyDict == [k \in {} |-> PyNone]

\* d.get(k): the value under k, None when the key is absent
DictGet(d, k) == IF k \in DOMAIN d THEN d[k] ELSE PyNone

\* d[k] = val
DictSet(d, k, val) == (k :> val) @@ d

(***************************************************************************)
(* Response extractor.  A reply text is a sequence of lexical units: the   *)
(* brace characters, the comma, a prose character, a complete member       *)
(* ("key": scalar) and a member key followed by a colon that introduces a  *)
(* nested object.                                                          *)
(***************************************************************************)
LBrace == "{"
RBrace == "}"
Comma == ","
Prose == "x"
NestKey == "n:"

\* the scalar members a reply can carry: unit -> <<key, value>>
MemberTable ==
  [ t0 |-> <<"truck_count", PyInt(0)>>,
    t3 |-> <<"truck_count", PyInt(3)>>,
    t4 |-> <<"truck_count", PyInt(4)>>,
    t5 |-> <<"truck_count", PyInt(5)>>,
    t7 |-> <<"truck_count", PyInt(7)>>,
    o0 |-> <<"occupancy_percent", PyInt(0)>>,
    o40 |-> <<"occupancy_percent", PyInt(40)>>,
    dDry |-> <<"detailed_notes", PyStr(<<"d", "r", "y">>)>>,
    dSnow |-> <<"detailed_notes", PyStr(<<"S", "n", "o", "w">>)>>,
    dLong |-> <<"detailed_notes", PyStr([i \in 1..LongNoteLen |-> "z"])>>,
    dSn |-> <<"detailed_notes", PyStr(<<"S", "n">>)>>,
    dOw |-> <<"detailed_notes", PyStr(<<"O", "W">>)>> ]

IsMember(u) == u \in DOMAIN MemberTable

\* str.find(ch): 0-based index of the first occurrence, -1 when absent
find(text, ch) ==
  LET hits == {i \in 1..Len(text) : text[i] = ch}
  IN IF hits = {} THEN -1
     ELSE (CHOOSE i \in hits : \A j \in hits : i <= j) - 1

\* str.rfind(ch): 0-based index of the last occurrence, -1 when absent
rfind(text, ch) ==
  LET hits == {i \in 1..Len(text) : text[i] = ch}
  IN IF hits = {} THEN -1
     ELSE (CHOOSE i \in hits : \A j \in hits : i >= j) - 1

\* text[start:end] with Python's treatment of negative and out-of-range
\* indices (0-based, end exclusive)
slice(text, start, end) ==
  LET n == Len(text)
      norm(i) == IF i < 0 THEN (IF i + n < 0 THEN 0 ELSE i + n)
                 ELSE IF i > n THEN n ELSE i
      lo == norm(start)
      hi == norm(end)
  IN IF lo >= hi THEN <<>> ELSE SubSeq(text, lo + 1, hi)

ParseFail == [ok |-> FALSE, pos |-> 0, obj |-> EmptyDict]

\* recursive-descent parse of a JSON object that starts at s[i] = "{";
\* pos is the index after the closing brace; a repeated key keeps the
\* last value, as json.loads does
RECURSIVE ParseObject(_, _)
RECURSIVE ParseMembers(_, _, _)
ParseObject(s, i) ==
  IF i > Len(s) \/ s[i] # LBrace THEN ParseFail
  ELSE IF i + 1 <= Len(s) /\ s[i + 1] = RBrace
       THEN [ok |-> TRUE, pos |-> i + 2, obj |-> EmptyDict]
       ELSE ParseMembers(s, i + 1, EmptyDict)

ParseMembers(s, i, acc) ==
  IF i > Len(s) THEN ParseFail
  ELSE
    LET m == IF IsMember(s[i])
             THEN [ok |-> TRUE, pos |-> i + 1,
                   obj |-> DictSet(acc, MemberTable[s[i]][1], MemberTable[s[i]][2])]
             ELSE IF s[i] = NestKey
             THEN LET r == ParseObject(s, i + 1)
                  IN IF r.ok
                     THEN [ok |-> TRUE, pos |-> r.pos,
                           obj |-> DictSet(acc, "n", PyDict(r.obj))]
                     ELSE ParseFail
             ELSE ParseFail
    IN IF ~m.ok \/ m.pos > Len(s) THEN ParseFail
       ELSE IF s[m.pos] = RBrace THEN [ok |-> TRUE, pos |-> m.pos + 1, obj |-> m.obj]
       ELSE IF s[m.pos] = Comma THEN ParseMembers(s, m.pos + 1, m.obj)
       ELSE ParseFail

\* json.loads(s): ok = FALSE stands for JSONDecodeError (empty input, a
\* text that does not start a value, or data after the value)
json_loads(s) ==
  LET r == ParseObject(s, 1)
  IN IF r.ok /\ r.pos = Len(s) + 1 THEN r ELSE ParseFail

\* label_image_parse with the "+ 1" after rfind forgotten: the slice stops
\* before the last "}"
label_image_parse_short(text) ==
  LET start == find(text, LBrace)
      end == rfind(text, RBrace)
      r == json_loads(slice(text, start, end))
  IN IF r.ok THEN r.obj
     ELSE [raw_response |-> PyStr(text), parse_error |-> PyBool(TRUE)]

\* the parse block of label_image and of label_image_with_opus: slices
\* without looking at the positions and catches everything
label_image_parse(text) ==
  LET start == find(text, LBrace)
      end == rfind(text, RBrace) + 1
      r == json_loads(slice(text, start, end))
  IN IF r.ok THEN r.obj
     ELSE [raw_response |-> PyStr(text), parse_error |-> PyBool(TRUE)]

\* the parse block of cv_training_comparison.call_haiku: the unchecked
\* slice again, with {"raw": text} as the fallback
call_haiku_parse(text) ==
  LET start_idx == find(text, LBrace)
      end_idx == rfind(text, RBrace) + 1
      r == json_loads(slice(text, start_idx, end_idx))
  IN IF r.ok THEN r.obj ELSE [raw |-> PyStr(text)]

\* test_haiku_with_rag_parse that wants the "{" after the first character
test_haiku_with_rag_parse_strict(text) ==
  LET start == find(text, LBrace)
      end == rfind(text, RBrace) + 1
  IN IF start > 0 /\ end > start
     THEN LET r == json_loads(slice(text, start, end))
          IN IF r.ok THEN r.obj ELSE [raw_response |-> PyStr(text)]
     ELSE [raw_response |-> PyStr(text)]

\* the parse block of test_haiku_with_rag: checks the positions first
test_haiku_with_rag_parse(text) ==
  LET start == find(text, LBrace)
      end == rfind(text, RBrace) + 1
  IN IF start >= 0 /\ end > start
     THEN LET r == json_loads(slice(text, start, end))
          IN IF r.ok THEN r.obj ELSE [raw_response |-> PyStr(text)]
     ELSE [raw_response |-> PyStr(text)]

(***************************************************************************)
(* Statistics aggregator.  The sites mapping is a Python dict, whose key   *)
(* order is insertion order: it is modelled as a sequence of               *)
(* [key, stats] entries, stats being the per-site dict.                    *)
(***************************************************************************)
WinterTip == "Winter conditions common. Look for truck shapes despite snow."
StandardTip == "Standard detection. Count trailer rectangles."

\* a test for None only, which lets "" through
Truthy_not_none(val) == val.kind # "none"

\* Python truthiness of a camera_id (None and "" are falsy)
Truthy(val) == ~(val.kind = "none" \/ (val.kind = "str" /\ val.v = <<>>))

\* the per-label summary appended to a site's samples
Sample(label) ==
  [ truck_count |-> DictGet(label, "truck_count"),
    occupancy_percent |-> DictGet(label, "occupancy_percent"),
    weather |-> DictGet(label, "weather"),
    time_of_day |-> DictGet(label, "time_of_day"),
    detailed_notes |-> DictGet(label, "detailed_notes") ]

\* position of camera key cam in the sites sequence, 0 when absent
SiteIndex(sites, cam) ==
  IF \E i \in 1..Len(sites) : sites[i].key = cam
  THEN CHOOSE i \in 1..Len(sites) : sites[i].key = cam
  ELSE 0

\* first loop of compute_site_stats / compute_site_statistics
RECURSIVE GroupFrom(_, _, _)
GroupFrom(images, i, acc) ==
  IF i > Len(images) THEN acc
  ELSE
    LET label == images[i]
        camera_id == DictGet(label, "camera_id")
    IN IF ~Truthy(camera_id) THEN GroupFrom(images, i + 1, acc)
       ELSE
         LET k == SiteIndex(acc, camera_id)
             acc1 == IF k = 0
                     THEN Append(acc, [key |-> camera_id,
                                       stats |-> [samples |-> <<>>, name |-> camera_id]])
                     ELSE acc
             k1 == IF k = 0 THEN Len(acc1) ELSE k
             acc2 == [acc1 EXCEPT ![k1].stats.samples = Append(@, Sample(label))]
         IN GroupFrom(images, i + 1, acc2)

\* the grouping loop walking images from the newest label to the oldest
GroupSamples_newest_first(images) ==
  GroupFrom([i \in 1..Len(images) |-> images[Len(images) + 1 - i]], 1, <<>>)

GroupSamples(images) == GroupFrom(images, 1, <<>>)

\* Present with the filter dropped and a missing value read as 0
Present_none_as_zero(samples, field) ==
  [i \in 1..Len(samples) |->
     IF samples[i][field].kind # "none" THEN samples[i][field].v ELSE 0]

\* [s[field] for s in samples if s.get(field) is not None]
Present(samples, field) ==
  LET RECURSIVE go(_)
      go(i) == IF i > Len(samples) THEN <<>>
               ELSE IF samples[i][field].kind # "none"
                    THEN <<samples[i][field].v>> \o go(i + 1)
                    ELSE go(i + 1)
  IN go(1)

SeqSum(xs) ==
  LET RECURSIVE go(_)
      go(i) == IF i > Len(xs) THEN 0 ELSE xs[i] + go(i + 1)
  IN go(1)

SeqMax(xs) == CHOOSE m \in {xs[i] : i \in 1..Len(xs)} : \A i \in 1..Len(xs) : m >= xs[i]
SeqMin(xs) == CHOOSE m \in {xs[i] : i \in 1..Len(xs)} : \A i \in 1..Len(xs) : m <= xs[i]

\* sum(xs) / len(xs) if xs else 0
Average(xs) == IF xs # <<>> THEN PyFloat(SeqSum(xs), Len(xs)) ELSE PyInt(0)

\* str.lower() on the characters the notes are written in
LowerChar(c) ==
  IF c = "S" THEN "s" ELSE IF c = "N" THEN "n" ELSE IF c = "O" THEN "o"
  ELSE IF c = "W" THEN "w" ELSE c

Lower(str) == [i \in 1..Len(str) |-> LowerChar(str[i])]

\* needle in hay
Contains(hay, needle) ==
  \E i \in 0..(Len(hay) - Len(needle)) :
     \A j \in 1..Len(needle) : hay[i + j] = needle[j]

\* "".join(parts): the notes joined with nothing between them
JoinSpace_no_separator(parts) ==
  LET RECURSIVE go(_)
      go(i) == IF i > Len(parts) THEN <<>> ELSE parts[i] \o go(i + 1)
  IN go(1)

\* " ".join(parts)
JoinSpace(parts) ==
  LET RECURSIVE go(_)
      go(i) == IF i > Len(parts) THEN <<>>
               ELSE IF i = Len(parts) THEN parts[i]
               ELSE parts[i] \o <<" ">> \o go(i + 1)
  IN go(1)

Snow == <<"s", "n", "o", "w">>

\* s.get("detailed_notes", "") for s in samples: the key is always there,
\* so the default is never used and None is handed to join, which raises
\* TypeError
NotesRaise(samples) ==
  \E i \in 1..Len(samples) : samples[i].detailed_notes.kind # "str"

DetectionTips(samples) ==
  LET all_notes == JoinSpace([i \in 1..Len(samples) |-> samples[i].detailed_notes.v])
  IN IF Contains(Lower(all_notes), Snow) THEN WinterTip ELSE StandardTip

\* the aggregate fields label_training_batch.compute_site_stats adds
BatchAggregates(stats) ==
  LET samples == stats.samples
      truck_counts == Present(samples, "truck_count")
      occupancies == Present(samples, "occupancy_percent")
  IN [ samples |-> samples,
       name |-> stats.name,
       avg_truck_count |-> Average(truck_counts),
       max_truck_count |-> IF truck_counts # <<>> THEN PyInt(SeqMax(truck_counts)) ELSE PyInt(0),
       min_truck_count |-> IF truck_counts # <<>> THEN PyInt(SeqMin(truck_counts)) ELSE PyInt(0),
       avg_occupancy |-> Average(occupancies),
       sample_count |-> PyInt(Len(samples)),
       detection_tips |-> DetectionTips(samples) ]

\* the aggregate fields TrainingPipeline.compute_site_statistics adds
\* (it has no min_truck_count)
PipelineAggregates(stats) ==
  LET samples == stats.samples
      truck_counts == Present(samples, "truck_count")
      occupancies == Present(samples, "occupancy_percent")
  IN [ samples |-> samples,
       name |-> stats.name,
       avg_truck_count |-> Average(truck_counts),
       max_truck_count |-> IF truck_counts # <<>> THEN PyInt(SeqMax(truck_counts)) ELSE PyInt(0),
       avg_occupancy |-> Average(occupancies),
       sample_count |-> PyInt(Len(samples)),
       detection_tips |-> DetectionTips(samples) ]

\* compute_site_stats that starts from the stored sites instead of an
\* empty mapping, so that the samples of an earlier recompute stay in
compute_site_stats_merging(labels) ==
  LET grouped == GroupFrom(labels.images, 1, labels.sites)
  IN IF \E k \in 1..Len(grouped) : NotesRaise(grouped[k].stats.samples)
     THEN [raised |-> TRUE, sites |-> <<>>]
     ELSE [raised |-> FALSE,
           sites |-> [k \in 1..Len(grouped) |->
                        [key |-> grouped[k].key, stats |-> BatchAggregates(grouped[k].stats)]]]

\* label_training_batch.compute_site_stats(labels): raised = TRUE is the
\* TypeError of the join, which leaves the function without a result
compute_site_stats(labels) ==
  LET grouped == GroupSamples(labels.images)
  IN IF \E k \in 1..Len(grouped) : NotesRaise(grouped[k].stats.samples)
     THEN [raised |-> TRUE, sites |-> <<>>]
     ELSE [raised |-> FALSE,
           sites |-> [k \in 1..Len(grouped) |->
                        [key |-> grouped[k].key, stats |-> BatchAggregates(grouped[k].stats)]]]

\* TrainingPipeline.compute_site_statistics, up to the assignment of
\* self.labels["sites"]
compute_site_statistics(labels) ==
  LET grouped == GroupSamples(labels.images)
  IN IF \E k \in 1..Len(grouped) : NotesRaise(grouped[k].stats.samples)
     THEN [raised |-> TRUE, sites |-> <<>>]
     ELSE [raised |-> FALSE,
           sites |-> [k \in 1..Len(grouped) |->
                        [key |-> grouped[k].key, stats |-> PipelineAggregates(grouped[k].stats)]]]

(***************************************************************************)
(* State.                                                                  *)
(*   disk      training_data/labels.json: status "nodir" (the directory    *)
(*             is missing), "absent", "ok" (a complete document) or        *)
(*             "partial" (opened for writing, not yet completely written)  *)
(*   statsFile training_data/site_stats.json (written by the pipeline)     *)
(*   durable   history: the images of the last save that completed         *)
(*   labels    the in-memory store {"images": [...], "sites": {...}}       *)
(*   pc, entry the position of the running script and which script it is   *)
(*   apiKey    whether ANTHROPIC_API_KEY is set for the run                *)
(*   to_label, idx  the images the loop walks and its position             *)
(*   called    the paths handed to the external model in this run          *)
(*   runs      number of runs started                                      *)
(*   after     where control goes when the save in progress returns        *)
(*   pending   an external model call was issued in this run and no delay  *)
(*             step has been taken since                                   *)
(*   impl, aggRuns, aggRaised   aggregator under test and its outcome      *)
(*   text, variant, result, extracted   extractor under test               *)
(*   query, knowledge, examples   the last retriever call and its results  *)
(*   prompt    the dynamic-context prompt composed from them               *)
(*   procs     two batch processes that share the persisted store: for     *)
(*             each its pc, labels, to_label, idx and after, and (history) *)
(*             saved, the images of its last save that completed           *)
(***************************************************************************)
VARIABLES disk, statsFile, durable, labels, pc, entry, apiKey, to_label, idx,
          called, runs, after, pending, impl, aggRuns, aggRaised,
          text, variant, result, extracted, query, knowledge, examples, prompt, procs

vars == <<disk, statsFile, durable, labels, pc, entry, apiKey, to_label, idx,
          called, runs, after, pending, impl, aggRuns, aggRaised,
          text, variant, result, extracted, query, knowledge, examples, prompt, procs>>

storeVars == <<disk, statsFile, durable, pc, entry, apiKey, to_label, idx, called, runs,
               after, pending>>
aggVars == <<impl, aggRuns, aggRaised>>
extractVars == <<text, variant, result, extracted>>
retrieveVars == <<query, knowledge, examples, prompt>>
concVars == <<procs>>

EmptyStore == [images |-> <<>>, sites |-> <<>>]
NoFile(status) == [status |-> status, images |-> <<>>, sites |-> <<>>]

\* files of training_images/ (label_training_batch) and of test_cameras/
\* (run_training_collection); a file name is the sequence of its
\* "_"-separated parts, extension dropped
TRAINING_DIR == << <<"NY", "TA", "195", "a">>, <<"MN", "C30038", "a">> >>
test_dir == << <<"MN", "C30038">>, <<"NY", "TA", "195", "truckpark">> >>

\* str(path): directory and file name
PathStr(dir, name) == PyStr(<<dir>> \o name)

\* label_training_batch.extract_camera_id
extract_camera_id(parts) ==
  IF parts[1] = "NY" THEN <<"NY", "TA", parts[3]>>
  ELSE IF parts[1] = "MN" THEN <<"MN", parts[2]>>
  ELSE SubSeq(parts, 1, IF Len(parts) < 2 THEN Len(parts) ELSE 2)

\* the camera id run_training_collection derives from the file stem
pipeline_camera_id(parts) ==
  IF \E i \in 1..Len(parts) : parts[i] = "truckpark"
  THEN SubSeq(parts, 1, IF Len(parts) < 3 THEN Len(parts) ELSE 3)
  ELSE <<parts[1], parts[2]>>

\* replies of the external model used in the batch runs: an object wrapped
\* in prose, and prose without an object
GoodReply == <<"x", "{", "t3", ",", "o40", ",", "dSnow", "}">>
ProseReply == <<"x", "x">>
Replies == {GoodReply, ProseReply}

\* the metadata the labeling functions add to the extracted dict (the
\* timestamp, the elapsed time and the token counts are not modelled:
\* nothing reads them)
AddMetadata(label, camera_id, image_path) ==
  DictSet(DictSet(label, "camera_id", PyStr(camera_id)), "image_path", image_path)

\* {l.get("image_path") for l in labels["images"]}
ImagePaths(images) == {DictGet(images[i], "image_path") : i \in 1..Len(images)}

\* what json.load would return from the persisted document
PersistedImages == IF disk.status = "ok" THEN disk.images ELSE <<>>

Running == pc \notin {"idle", "done", "aborted"}

TypeOK ==
  /\ disk.status \in {"nodir", "absent", "ok", "partial"}
  /\ pc \in {"idle", "call", "save_open", "save_dump", "sleep", "stats",
             "stats_file", "done", "aborted",
             "cmp_baseline", "cmp_training", "cmp_sleep", "cmp_summary"}
  /\ entry \in {"none", "batch", "pipeline", "compare"}
  /\ pending \in BOOLEAN
  /\ apiKey \in BOOLEAN
  /\ runs \in 0..MaxRuns
  /\ idx \in 0..(Len(to_label) + 1)

InitIdleAgg == /\ impl = "none" /\ aggRuns = 0 /\ aggRaised = FALSE
InitIdleExtract == /\ text = <<>> /\ variant = "none" /\ result = EmptyDict /\ extracted = FALSE
NoQuery == [op |-> "none", camera_id |-> PyNone, n |-> 0]
NoPrompt == [raised |-> FALSE, value |-> EmptyDict]
InitIdleRetrieve ==
  /\ query = NoQuery /\ knowledge = [raised |-> FALSE, value |-> EmptyDict] /\ examples = <<>>
  /\ prompt = NoPrompt

\* the two concurrent processes, neither started
ProcIds == {1, 2}
IdleProc ==
  [ pc |-> "idle", labels |-> EmptyStore, to_label |-> <<>>, idx |-> 0, after |-> "none",
    saved |-> <<>> ]
InitIdleConc == procs = [p \in ProcIds |-> IdleProc]

InitIdleStore ==
  /\ statsFile = NoFile("absent") /\ durable = <<>>
  /\ pc = "idle" /\ entry = "none" /\ apiKey = FALSE
  /\ to_label = <<>> /\ idx = 0 /\ called = <<>> /\ runs = 0 /\ after = "none"
  /\ pending = FALSE

\* nothing has run yet: the store was never written, and its directory may
\* or may not exist
Init ==
  /\ disk \in {NoFile("nodir"), NoFile("absent")}
  /\ labels = EmptyStore
  /\ InitIdleStore /\ InitIdleAgg /\ InitIdleExtract /\ InitIdleRetrieve /\ InitIdleConc

\* a load that accepts whatever the file holds
LoadRaises_never == FALSE

\* json.load(f) on a document that was not completely written raises
\* JSONDecodeError
LoadRaises == disk.status = "partial"

\* load_labels / TrainingPipeline._load_labels on a readable store
LoadedStore ==
  IF disk.status = "ok" THEN [images |-> disk.images, sites |-> disk.sites]
  ELSE EmptyStore

\* label_training_batch.main, from its start to the head of the loop
StartBatch ==
  /\ ~Running /\ runs < MaxRuns
  /\ runs' = runs + 1
  /\ entry' = "batch"
  /\ called' = <<>> /\ after' = "none" /\ pending' = FALSE
  /\ \E key \in BOOLEAN :
       /\ apiKey' = key
       /\ IF ~key
          THEN \* "ANTHROPIC_API_KEY not set": return
               /\ pc' = "done" /\ labels' = EmptyStore
               /\ to_label' = <<>> /\ idx' = 0
          ELSE IF LoadRaises
          THEN \* JSONDecodeError, uncaught
               /\ pc' = "aborted" /\ labels' = EmptyStore
               /\ to_label' = <<>> /\ idx' = 0
          ELSE LET loaded == LoadedStore
                   labeled_paths == ImagePaths(loaded.images)
                   todo == SelectSeq(TRAINING_DIR,
                              LAMBDA f : PathStr("training_images", f) \notin labeled_paths)
               IN /\ labels' = loaded
                  /\ to_label' = todo
                  /\ IF todo = <<>>
                     THEN pc' = "done" /\ idx' = 0
                     ELSE pc' = "call" /\ idx' = 1
  /\ UNCHANGED <<disk, statsFile, durable>>
  /\ UNCHANGED aggVars /\ UNCHANGED extractVars /\ UNCHANGED retrieveVars /\ UNCHANGED concVars

\* run_training_collection, from TrainingPipeline() to the head of the loop
StartPipeline ==
  /\ ~Running /\ runs < MaxRuns
  /\ runs' = runs + 1
  /\ entry' = "pipeline"
  /\ called' = <<>> /\ after' = "none" /\ pending' = FALSE
  /\ \E key \in BOOLEAN : apiKey' = key
  \* data_dir.mkdir(exist_ok=True)
  /\ disk' = IF disk.status = "nodir" THEN NoFile("absent") ELSE disk
  /\ IF LoadRaises
     THEN /\ pc' = "aborted" /\ labels' = EmptyStore
          /\ to_label' = <<>> /\ idx' = 0
     ELSE /\ labels' = LoadedStore
          /\ to_label' = test_dir
          /\ IF test_dir = <<>>
             THEN pc' = "stats" /\ idx' = 0
             ELSE pc' = "call" /\ idx' = 1
  /\ UNCHANGED <<statsFile, durable>>
  /\ UNCHANGED aggVars /\ UNCHANGED extractVars /\ UNCHANGED retrieveVars /\ UNCHANGED concVars

\* one pass through label_image (batch) or label_image_with_opus (pipeline)
\* up to the append: the external call fails, or returns a reply that is
\* extracted, completed with metadata and appended to the in-memory images
LabelImage ==
  /\ pc = "call"
  /\ LET f == to_label[idx]
         dir == IF entry = "batch" THEN "training_images" ELSE "test_cameras"
         path == PathStr(dir, f)
         camera_id == IF entry = "batch" THEN extract_camera_id(f)
                      ELSE pipeline_camera_id(f)
     IN IF entry = "pipeline" /\ ~apiKey
        THEN \* label_image_with_opus returns None before any call
             /\ pc' = "sleep"
             /\ UNCHANGED <<labels, called, after, pending>>
        ELSE /\ called' = Append(called, path)
             /\ pending' = TRUE
             /\ \/ \* the call raises: caught, nothing recorded
                   /\ pc' = "sleep"
                   /\ UNCHANGED <<labels, after>>
                \/ \E reply \in Replies :
                     LET label == AddMetadata(label_image_parse(reply), camera_id, path)
                     IN /\ labels' = [labels EXCEPT !.images = Append(@, label)]
                        /\ pc' = "save_open"
                        /\ after' = "sleep"
  /\ UNCHANGED <<disk, statsFile, durable, entry, apiKey, to_label, idx, runs>>
  /\ UNCHANGED aggVars /\ UNCHANGED extractVars /\ UNCHANGED retrieveVars /\ UNCHANGED concVars

\* save_labels / _save_labels, first half: open(LABELS_FILE, "w") truncates
\* the document (or raises FileNotFoundError when the directory is missing)
SaveOpen ==
  /\ pc = "save_open"
  /\ IF disk.status = "nodir"
     THEN /\ pc' = IF after = "sleep" THEN "sleep" ELSE "aborted"
          /\ UNCHANGED disk
     ELSE /\ disk' = NoFile("partial")
          /\ pc' = "save_dump"
  /\ UNCHANGED <<statsFile, durable, labels, entry, apiKey, to_label, idx, called, runs, after,
                 pending>>
  /\ UNCHANGED aggVars /\ UNCHANGED extractVars /\ UNCHANGED retrieveVars /\ UNCHANGED concVars

\* save_labels / _save_labels, second half: json.dump writes the whole
\* store and the file is closed
SaveDump ==
  /\ pc = "save_dump"
  /\ disk' = [status |-> "ok", images |-> labels.images, sites |-> labels.sites]
  /\ durable' = labels.images
  /\ pc' = after
  /\ UNCHANGED <<statsFile, labels, entry, apiKey, to_label, idx, called, runs, after, pending>>
  /\ UNCHANGED aggVars /\ UNCHANGED extractVars /\ UNCHANGED retrieveVars /\ UNCHANGED concVars

\* a loop that ends at its first delay
Sleep_stop ==
  /\ pc = "sleep"
  /\ idx' = idx + 1
  /\ pc' = "stats"
  /\ pending' = FALSE
  /\ UNCHANGED <<disk, statsFile, durable, labels, entry, apiKey, to_label, called, runs, after>>
  /\ UNCHANGED aggVars /\ UNCHANGED extractVars /\ UNCHANGED retrieveVars /\ UNCHANGED concVars

\* time.sleep(1) at the end of a loop pass, then the next image or the
\* statistics step
Sleep ==
  /\ pc = "sleep"
  /\ idx' = idx + 1
  /\ pc' = IF idx < Len(to_label) THEN "call" ELSE "stats"
  /\ pending' = FALSE
  /\ UNCHANGED <<disk, statsFile, durable, labels, entry, apiKey, to_label, called, runs, after>>
  /\ UNCHANGED aggVars /\ UNCHANGED extractVars /\ UNCHANGED retrieveVars /\ UNCHANGED concVars

\* the statistics step after the loop: main lines 205-208, or
\* compute_site_statistics up to its _save_labels
ComputeStats ==
  /\ pc = "stats"
  /\ LET r == IF entry = "batch" THEN compute_site_stats(labels)
              ELSE compute_site_statistics(labels)
     IN IF r.raised
        THEN \* TypeError, uncaught
             /\ pc' = "aborted"
             /\ UNCHANGED <<labels, after>>
        ELSE /\ labels' = [labels EXCEPT !.sites = r.sites]
             /\ pc' = "save_open"
             /\ after' = IF entry = "batch" THEN "done" ELSE "stats_file"
  /\ UNCHANGED <<disk, statsFile, durable, entry, apiKey, to_label, idx, called, runs, pending>>
  /\ UNCHANGED aggVars /\ UNCHANGED extractVars /\ UNCHANGED retrieveVars /\ UNCHANGED concVars

\* compute_site_statistics, the separate site_stats.json
WriteStatsFile ==
  /\ pc = "stats_file"
  /\ statsFile' = [status |-> "ok", images |-> <<>>, sites |-> labels.sites]
  /\ pc' = "done"
  /\ UNCHANGED <<disk, durable, labels, entry, apiKey, to_label, idx, called, runs, after,
                 pending>>
  /\ UNCHANGED aggVars /\ UNCHANGED extractVars /\ UNCHANGED retrieveVars /\ UNCHANGED concVars

\* the process is terminated; what it held in memory is gone
Crash ==
  /\ Running
  /\ pc' = "idle"
  /\ labels' = EmptyStore
  /\ to_label' = <<>> /\ idx' = 0 /\ after' = "none" /\ pending' = FALSE
  /\ UNCHANGED <<disk, statsFile, durable, entry, apiKey, called, runs>>
  /\ UNCHANGED aggVars /\ UNCHANGED extractVars /\ UNCHANGED retrieveVars /\ UNCHANGED concVars

Next ==
  \/ StartBatch
  \/ StartPipeline
  \/ LabelImage
  \/ SaveOpen
  \/ SaveDump
  \/ Sleep
  \/ ComputeStats
  \/ WriteStatsFile
  \/ Crash

Spec == Init /\ [][Next]_vars

(***************************************************************************)
(* The aggregator on its own: the store holds any bounded sequence of      *)
(* labels the labeling functions can produce, and the statistics step is   *)
(* applied to it, repeatedly.                                              *)
(***************************************************************************)
MaxRecomputes == 2

CamX == <<"X">>
CamY == <<"Y">>

FullReply == <<"{", "t3", ",", "o40", ",", "dDry", "}">>
SnowReply == <<"{", "t5", ",", "o40", ",", "dSnow", "}">>
NoOccReply == <<"{", "t7", ",", "dDry", "}">>
NoCountReply == <<"{", "o40", ",", "dDry", "}">>
ZeroReply == <<"{", "t0", ",", "o0", ",", "dDry", "}">>

\* <<camera, reply>> combinations the aggregator is exercised on
AggKinds ==
  { <<CamX, FullReply>>, <<CamX, SnowReply>>, <<CamX, NoOccReply>>,
    <<CamX, NoCountReply>>, <<CamX, ProseReply>>,
    <<CamY, NoCountReply>>, <<CamY, ZeroReply>> }

AggLabel(kind, i) ==
  AddMetadata(label_image_parse(kind[2]), kind[1], PyStr(<<"img", ToString(i)>>))

AggImages ==
  UNION { { [i \in 1..n |-> AggLabel(f[i], i)] : f \in [1..n -> AggKinds] } : n \in 0..MaxImages }

InitAgg ==
  /\ disk = NoFile("absent")
  /\ InitIdleStore /\ InitIdleExtract /\ InitIdleRetrieve /\ InitIdleConc
  /\ impl \in {"batch", "pipeline"}
  /\ aggRuns = 0 /\ aggRaised = FALSE
  /\ \E imgs \in AggImages : labels = [images |-> imgs, sites |-> <<>>]

\* labels["sites"] = compute_site_stats(labels)   (main, line 207)
AggBatch ==
  /\ impl = "batch" /\ aggRuns < MaxRecomputes
  /\ LET r == compute_site_stats(labels)
     IN /\ aggRaised' = r.raised
        /\ labels' = IF r.raised THEN labels ELSE [labels EXCEPT !.sites = r.sites]
  /\ aggRuns' = aggRuns + 1
  /\ UNCHANGED impl
  /\ UNCHANGED storeVars /\ UNCHANGED extractVars /\ UNCHANGED retrieveVars /\ UNCHANGED concVars

\* self.labels["sites"] = site_stats   (compute_site_statistics, line 264)
AggPipeline ==
  /\ impl = "pipeline" /\ aggRuns < MaxRecomputes
  /\ LET r == compute_site_statistics(labels)
     IN /\ aggRaised' = r.raised
        /\ labels' = IF r.raised THEN labels ELSE [labels EXCEPT !.sites = r.sites]
  /\ aggRuns' = aggRuns + 1
  /\ UNCHANGED impl
  /\ UNCHANGED storeVars /\ UNCHANGED extractVars /\ UNCHANGED retrieveVars /\ UNCHANGED concVars

NextAgg == AggBatch \/ AggPipeline

SpecAgg == InitAgg /\ [][NextAgg]_vars

(***************************************************************************)
(* The detection-tip rule and the grouping on their own: the aggregators   *)
(* applied to labels whose notes hold "snow" whole, in part, or not at     *)
(* all, among them labels of a file named ".png", for which                *)
(* extract_camera_id gives the empty string.                               *)
(***************************************************************************)
SnReply == <<"{", "t3", ",", "o40", ",", "dSn", "}">>
OwReply == <<"{", "t3", ",", "o40", ",", "dOw", "}">>

\* "_".join(parts[:2]) for the stem ""
NoCam == <<>>

TipKinds ==
  { <<CamX, SnReply>>, <<CamX, OwReply>>, <<CamX, SnowReply>>, <<CamX, FullReply>>,
    <<CamY, SnowReply>>, <<NoCam, SnowReply>> }

TipImages ==
  UNION { { [i \in 1..n |-> AggLabel(f[i], i)] : f \in [1..n -> TipKinds] } : n \in 0..MaxImages }

InitTips ==
  /\ disk = NoFile("absent")
  /\ InitIdleStore /\ InitIdleExtract /\ InitIdleRetrieve /\ InitIdleConc
  /\ impl \in {"batch", "pipeline"}
  /\ aggRuns = 0 /\ aggRaised = FALSE
  /\ \E imgs \in TipImages : labels = [images |-> imgs, sites |-> <<>>]

SpecTips == InitTips /\ [][NextAgg]_vars

(***************************************************************************)
(* The extractor on its own: any reply text up to MaxTextLen units.        *)
(***************************************************************************)
ExtractAlphabet == {LBrace, RBrace, Comma, Prose, "t4", NestKey}

Texts == UNION { [1..n -> ExtractAlphabet] : n \in 0..MaxTextLen }

InitExtract ==
  /\ disk = NoFile("absent") /\ labels = EmptyStore
  /\ InitIdleStore /\ InitIdleAgg /\ InitIdleRetrieve /\ InitIdleConc
  /\ text \in Texts
  /\ variant \in {"label", "rag"}
  /\ result = EmptyDict /\ extracted = FALSE

\* the try/except of label_image and label_image_with_opus
ExtractLabel ==
  /\ variant = "label" /\ ~extracted
  /\ result' = label_image_parse(text)
  /\ extracted' = TRUE
  /\ UNCHANGED <<text, variant, labels>>
  /\ UNCHANGED storeVars /\ UNCHANGED aggVars /\ UNCHANGED retrieveVars /\ UNCHANGED concVars

\* the try/except of test_haiku_with_rag
ExtractRag ==
  /\ variant = "rag" /\ ~extracted
  /\ result' = test_haiku_with_rag_parse(text)
  /\ extracted' = TRUE
  /\ UNCHANGED <<text, variant, labels>>
  /\ UNCHANGED storeVars /\ UNCHANGED aggVars /\ UNCHANGED retrieveVars /\ UNCHANGED concVars

NextExtract == ExtractLabel \/ ExtractRag

SpecExtract == InitExtract /\ [][NextExtract]_vars

(***************************************************************************)
(* The retriever of TrainingPipeline on its own: labels are recorded, the  *)
(* statistics are recomputed, and get_site_knowledge / get_similar_examples*)
(* are called for any camera id.  The result of a call is held until the   *)
(* store changes; the calls only read the store, so one call is followed   *)
(* between two changes of it.                                              *)
(***************************************************************************)
MaxExamples == 3

\* d.get(k, dflt)
DictGetDefault(d, k, dflt) == IF k \in DOMAIN d THEN d[k] ELSE dflt

GenericTip == "Count semi-truck trailers"
Unknown == PyStr(<<"Unknown">>)

\* round(x) of a non-negative number: an int is returned as it is, a float
\* is rounded to the nearest int, a tie going to the even neighbour
PyRound(val) ==
  IF val.kind = "int" THEN val
  ELSE LET n == val.v[1]
           d == val.v[2]
           q == n \div d
           r == n % d
       IN PyInt(IF 2 * r < d THEN q
                ELSE IF 2 * r > d THEN q + 1
                ELSE IF q % 2 = 0 THEN q ELSE q + 1)

\* round accepts numbers only (TypeError otherwise)
IsNumber(val) == val.kind \in {"int", "float"}

\* a lookup that falls back to the first site for an unknown camera id
SiteData_first(store, camera_id) ==
  LET k == SiteIndex(store.sites, camera_id)
  IN IF k # 0 THEN store.sites[k].stats
     ELSE IF store.sites # <<>> THEN store.sites[1].stats ELSE EmptyDict

\* self.labels.get("sites", {}).get(camera_id, {})
SiteData(store, camera_id) ==
  LET k == SiteIndex(store.sites, camera_id)
  IN IF k = 0 THEN EmptyDict ELSE store.sites[k].stats

\* get_site_knowledge with no default for avg_occupancy
get_site_knowledge_nodefault(store, camera_id) ==
  LET site_data == SiteData(store, camera_id)
      occ == DictGet(site_data, "avg_occupancy")
  IN IF ~IsNumber(occ) THEN [raised |-> TRUE, value |-> EmptyDict]
     ELSE [raised |-> FALSE,
           value |-> [ name |-> DictGetDefault(site_data, "name", camera_id),
                       avg_capacity |-> DictGetDefault(site_data, "max_truck_count", Unknown),
                       avg_occupancy |-> PyRound(occ),
                       detection_tips |-> DictGetDefault(site_data, "detection_tips", GenericTip),
                       sample_count |-> DictGetDefault(site_data, "sample_count", PyInt(0)) ]]

\* TrainingPipeline.get_site_knowledge(camera_id): raised = TRUE is the
\* TypeError of round
get_site_knowledge(store, camera_id) ==
  LET site_data == SiteData(store, camera_id)
      occ == DictGetDefault(site_data, "avg_occupancy", PyInt(0))
  IN IF ~IsNumber(occ) THEN [raised |-> TRUE, value |-> EmptyDict]
     ELSE [raised |-> FALSE,
           value |-> [ name |-> DictGetDefault(site_data, "name", camera_id),
                       avg_capacity |-> DictGetDefault(site_data, "max_truck_count", Unknown),
                       avg_occupancy |-> PyRound(occ),
                       detection_tips |-> DictGetDefault(site_data, "detection_tips", GenericTip),
                       sample_count |-> DictGetDefault(site_data, "sample_count", PyInt(0)) ]]

\* examples taken from the labels of the camera instead of the samples of
\* its site
get_similar_examples_from_images(store, camera_id, n) ==
  LET own == SelectSeq(store.images, LAMBDA l : DictGet(l, "camera_id") = camera_id)
      samples == [i \in 1..Len(own) |-> Sample(own[i])]
  IN IF samples # <<>> THEN slice(samples, 0 - n, Len(samples)) ELSE <<>>

\* TrainingPipeline.get_similar_examples(camera_id, n): samples[-n:] is the
\* slice from index -n to the end
get_similar_examples(store, camera_id, n) ==
  LET site_data == SiteData(store, camera_id)
      samples == DictGetDefault(site_data, "samples", <<>>)
  IN IF samples # <<>> THEN slice(samples, 0 - n, Len(samples)) ELSE <<>>

\* the constants of get_haiku_production_prompt: similar_examples[:3] and
\* the [:100] of the notes
PromptExamples == 3
NotesBudget == 100

\* what an f-string puts in for a value: str(value)
PyFormat(val) ==
  IF val.kind = "str" THEN val.v
  ELSE IF val.kind = "int" THEN <<ToString(val.v)>>
  ELSE IF val.kind = "none" THEN <<"None">>
  ELSE IF val.kind = "bool" THEN <<IF val.v THEN "True" ELSE "False">>
  ELSE <<ToString(val.v)>>

\* get_haiku_production_prompt with neither cut
get_haiku_production_prompt_uncut(site_knowledge, similar_examples) ==
  IF \E i \in 1..Len(similar_examples) :
        DictGetDefault(similar_examples[i], "detailed_notes", PyStr(<<"N/A">>)).kind # "str"
  THEN [raised |-> TRUE, value |-> EmptyDict]
  ELSE [raised |-> FALSE,
        value |->
          [ location |-> PyFormat(DictGetDefault(site_knowledge, "name", Unknown)),
            capacity |-> PyFormat(DictGetDefault(site_knowledge, "avg_capacity", PyStr(<<"?">>))),
            occupancy |-> PyFormat(DictGetDefault(site_knowledge, "avg_occupancy", PyStr(<<"?">>))),
            tips |-> DictGetDefault(site_knowledge, "detection_tips", GenericTip),
            examples_text |->
              [i \in 1..Len(similar_examples) |->
                 [ i |-> i,
                   truck_count |-> PyFormat(DictGetDefault(similar_examples[i], "truck_count", PyStr(<<"?">>))),
                   occupancy |-> PyFormat(DictGetDefault(similar_examples[i], "occupancy_percent", PyStr(<<"?">>))),
                   notes |-> DictGetDefault(similar_examples[i], "detailed_notes", PyStr(<<"N/A">>)).v ]] ]]

\* get_haiku_production_prompt(site_knowledge, similar_examples).  The text
\* is the fixed template with these parts put in: the four site lines and
\* one block per example shown.  raised = TRUE is the TypeError of [:100]
\* applied to notes that are not a str
get_haiku_production_prompt(site_knowledge, similar_examples) ==
  LET shown == slice(similar_examples, 0, PromptExamples)
  IN IF \E i \in 1..Len(shown) :
           DictGetDefault(shown[i], "detailed_notes", PyStr(<<"N/A">>)).kind # "str"
     THEN [raised |-> TRUE, value |-> EmptyDict]
     ELSE [raised |-> FALSE,
           value |->
             [ location |-> PyFormat(DictGetDefault(site_knowledge, "name", Unknown)),
               capacity |-> PyFormat(DictGetDefault(site_knowledge, "avg_capacity", PyStr(<<"?">>))),
               occupancy |-> PyFormat(DictGetDefault(site_knowledge, "avg_occupancy", PyStr(<<"?">>))),
               tips |-> DictGetDefault(site_knowledge, "detection_tips", GenericTip),
               examples_text |->
                 [i \in 1..Len(shown) |->
                    [ i |-> i,
                      truck_count |-> PyFormat(DictGetDefault(shown[i], "truck_count", PyStr(<<"?">>))),
                      occupancy |-> PyFormat(DictGetDefault(shown[i], "occupancy_percent", PyStr(<<"?">>))),
                      notes |-> slice(DictGetDefault(shown[i], "detailed_notes", PyStr(<<"N/A">>)).v,
                                      0, NotesBudget) ]] ]]

LongReply == <<"{", "t4", ",", "o40", ",", "dLong", "}">>

\* <<camera, reply>> combinations recorded in the retriever's store
RetrieveKinds ==
  { <<CamX, SnowReply>>, <<CamX, NoOccReply>>, <<CamX, ProseReply>>, <<CamY, LongReply>> }

\* camera ids asked for: the two recorded ones and one never recorded
UnknownCam == PyStr(<<"UNKNOWN", "CAM">>)
QueryCameras == {PyStr(CamX), PyStr(CamY), UnknownCam}

InitRetrieve ==
  /\ disk = NoFile("absent") /\ labels = EmptyStore
  /\ InitIdleStore /\ InitIdleExtract /\ InitIdleRetrieve /\ InitIdleConc
  /\ impl \in {"batch", "pipeline"}
  /\ aggRuns = 0 /\ aggRaised = FALSE

\* self.labels["images"].append(label)   (label_image_with_opus, line 210)
Record ==
  /\ Len(labels.images) < MaxImages
  /\ \E kind \in RetrieveKinds :
       labels' = [labels EXCEPT !.images = Append(@, AggLabel(kind, Len(@) + 1))]
  /\ query' = NoQuery /\ knowledge' = [raised |-> FALSE, value |-> EmptyDict]
  /\ examples' = <<>> /\ prompt' = NoPrompt
  /\ UNCHANGED storeVars /\ UNCHANGED aggVars /\ UNCHANGED extractVars /\ UNCHANGED concVars

\* the statistics step of the script that maintains the store; a recompute
\* that raises leaves the sites as they were
Recompute ==
  /\ LET r == IF impl = "batch" THEN compute_site_stats(labels)
              ELSE compute_site_statistics(labels)
     IN /\ labels' = IF r.raised THEN labels ELSE [labels EXCEPT !.sites = r.sites]
        /\ aggRaised' = r.raised
  /\ query' = NoQuery /\ knowledge' = [raised |-> FALSE, value |-> EmptyDict]
  /\ examples' = <<>> /\ prompt' = NoPrompt
  /\ UNCHANGED <<impl, aggRuns>>
  /\ UNCHANGED storeVars /\ UNCHANGED extractVars /\ UNCHANGED concVars

GetSiteKnowledge ==
  /\ query = NoQuery
  /\ \E camera_id \in QueryCameras :
       /\ query' = [op |-> "knowledge", camera_id |-> camera_id, n |-> 0]
       /\ knowledge' = get_site_knowledge(labels, camera_id)
  /\ examples' = <<>> /\ prompt' = NoPrompt
  /\ UNCHANGED labels
  /\ UNCHANGED storeVars /\ UNCHANGED aggVars /\ UNCHANGED extractVars /\ UNCHANGED concVars

GetSimilarExamples ==
  /\ query = NoQuery
  /\ \E camera_id \in QueryCameras, n \in 0..MaxExamples :
       /\ query' = [op |-> "examples", camera_id |-> camera_id, n |-> n]
       /\ examples' = get_similar_examples(labels, camera_id, n)
  /\ knowledge' = [raised |-> FALSE, value |-> EmptyDict] /\ prompt' = NoPrompt
  /\ UNCHANGED labels
  /\ UNCHANGED storeVars /\ UNCHANGED aggVars /\ UNCHANGED extractVars /\ UNCHANGED concVars

\* test_production_with_training, lines 371-378: the knowledge and the
\* examples of a camera are retrieved and the prompt is composed from them
ComposePrompt ==
  /\ query = NoQuery
  /\ \E camera_id \in QueryCameras, n \in 0..MaxExamples :
       LET site_knowledge == get_site_knowledge(labels, camera_id)
           similar_examples == get_similar_examples(labels, camera_id, n)
       IN /\ query' = [op |-> "prompt", camera_id |-> camera_id, n |-> n]
          /\ knowledge' = site_knowledge
          /\ examples' = similar_examples
          /\ prompt' = IF site_knowledge.raised THEN [raised |-> TRUE, value |-> EmptyDict]
                       ELSE get_haiku_production_prompt(site_knowledge.value, similar_examples)
  /\ UNCHANGED labels
  /\ UNCHANGED storeVars /\ UNCHANGED aggVars /\ UNCHANGED extractVars /\ UNCHANGED concVars

NextRetrieve == Record \/ Recompute \/ GetSiteKnowledge \/ GetSimilarExamples \/ ComposePrompt

SpecRetrieve == InitRetrieve /\ [][NextRetrieve]_vars

(***************************************************************************)
(* cv_training_comparison.main: for every camera of the persisted store,   *)
(* the external model is asked twice (without and with the training        *)
(* context) and the answers are compared with the stored label.  The       *)
(* script reads the store and never writes it; its result file gets a new  *)
(* name at every run and is not modelled.                                  *)
(***************************************************************************)
\* get_opus_ground_truth: a dict keyed by camera_id, a later label of the
\* same camera replacing the value of an earlier one
RECURSIVE GroundTruthFrom(_, _, _)
GroundTruthFrom(images, i, acc) ==
  IF i > Len(images) THEN acc
  ELSE
    LET img == images[i]
        truth == [ camera_id |-> DictGet(img, "camera_id"),
                   truck_count |-> DictGetDefault(img, "truck_count", PyInt(0)),
                   occupancy_percent |-> DictGetDefault(img, "occupancy_percent", PyInt(0)),
                   image_path |-> DictGet(img, "image_path") ]
        hits == {k \in 1..Len(acc) : acc[k].camera_id = truth.camera_id}
    IN GroundTruthFrom(images, i + 1,
          IF hits = {} THEN Append(acc, truth)
          ELSE [acc EXCEPT ![CHOOSE k \in hits : TRUE] = truth])

get_opus_ground_truth(store) == GroundTruthFrom(store.images, 1, <<>>)

\* get_training_context: the [:200] of the first sample's notes raises
\* TypeError when the notes are None
TrainingContextRaises(store, camera_id) ==
  LET samples == DictGetDefault(SiteData(store, camera_id), "samples", <<>>)
  IN samples # <<>> /\ samples[1].detailed_notes.kind # "str"

\* the persisted stores the comparison is started on
CompareImages ==
  UNION { { [i \in 1..n |-> AggLabel(f[i], i)] : f \in [1..n -> RetrieveKinds] } : n \in 0..MaxImages }

CompareStores ==
  {NoFile("absent"), NoFile("partial")}
  \cup { [status |-> "ok", images |-> imgs, sites |-> <<>>] : imgs \in CompareImages }
  \cup { [status |-> "ok", images |-> imgs, sites |-> compute_site_statistics([images |-> imgs, sites |-> <<>>]).sites] :
           imgs \in CompareImages }

InitCompare ==
  /\ disk \in CompareStores
  /\ labels = EmptyStore
  /\ InitIdleStore /\ InitIdleAgg /\ InitIdleExtract /\ InitIdleRetrieve /\ InitIdleConc

\* main, from its start to the head of the loop
StartCompare ==
  /\ ~Running /\ runs < MaxRuns
  /\ runs' = runs + 1
  /\ entry' = "compare"
  /\ called' = <<>> /\ after' = "none" /\ pending' = FALSE
  /\ \E key \in BOOLEAN : apiKey' = key
  /\ IF disk.status # "ok"
     THEN \* load_training_data: FileNotFoundError or JSONDecodeError, uncaught
          /\ pc' = "aborted" /\ labels' = EmptyStore
          /\ to_label' = <<>> /\ idx' = 0
     ELSE LET ground_truth == get_opus_ground_truth(LoadedStore)
          IN /\ labels' = LoadedStore
             /\ to_label' = ground_truth
             /\ IF ground_truth = <<>>
                THEN pc' = "cmp_summary" /\ idx' = 0
                ELSE pc' = "cmp_baseline" /\ idx' = 1
  /\ UNCHANGED <<disk, statsFile, durable>>
  /\ UNCHANGED aggVars /\ UNCHANGED extractVars /\ UNCHANGED retrieveVars /\ UNCHANGED concVars

\* call_haiku(image_path, prompt): without credentials an error dict is
\* returned and no call is made; the call itself is not guarded, so that
\* its failure ends the run; otherwise control goes on to next
call_haiku(image_path, next) ==
  IF ~apiKey
  THEN /\ pc' = next
       /\ UNCHANGED <<called, pending>>
  ELSE /\ called' = Append(called, image_path)
       /\ pending' = TRUE
       /\ pc' \in {"aborted", next}

\* lines 131-142: the image is skipped when its file is gone, otherwise the
\* baseline call is made
CompareBaseline ==
  /\ pc = "cmp_baseline"
  /\ \/ /\ idx' = idx + 1
        /\ pc' = IF idx < Len(to_label) THEN "cmp_baseline" ELSE "cmp_summary"
        /\ UNCHANGED <<called, pending>>
     \/ /\ call_haiku(to_label[idx].image_path, "cmp_training")
        /\ UNCHANGED idx
  /\ UNCHANGED <<disk, statsFile, durable, labels, entry, apiKey, to_label, runs, after>>
  /\ UNCHANGED aggVars /\ UNCHANGED extractVars /\ UNCHANGED retrieveVars /\ UNCHANGED concVars

\* lines 144-163: the call with the training context, then the result is
\* appended
CompareTraining ==
  /\ pc = "cmp_training"
  /\ IF TrainingContextRaises(labels, to_label[idx].camera_id)
     THEN /\ pc' = "aborted"
          /\ UNCHANGED <<called, pending>>
     ELSE call_haiku(to_label[idx].image_path, "cmp_sleep")
  /\ UNCHANGED <<disk, statsFile, durable, labels, entry, apiKey, to_label, idx, runs, after>>
  /\ UNCHANGED aggVars /\ UNCHANGED extractVars /\ UNCHANGED retrieveVars /\ UNCHANGED concVars

\* time.sleep(0.5) at the end of a loop pass
CompareSleep ==
  /\ pc = "cmp_sleep"
  /\ pending' = FALSE
  /\ idx' = idx + 1
  /\ pc' = IF idx < Len(to_label) THEN "cmp_baseline" ELSE "cmp_summary"
  /\ UNCHANGED <<disk, statsFile, durable, labels, entry, apiKey, to_label, called, runs, after>>
  /\ UNCHANGED aggVars /\ UNCHANGED extractVars /\ UNCHANGED retrieveVars /\ UNCHANGED concVars

\* lines 167-204: the token increase divides by the baseline token total,
\* which is 0 (ZeroDivisionError) when no call was made
CompareSummary ==
  /\ pc = "cmp_summary"
  /\ pc' = IF apiKey /\ called # <<>> THEN "done" ELSE "aborted"
  /\ UNCHANGED <<disk, statsFile, durable, labels, entry, apiKey, to_label, idx, called, runs,
                 after, pending>>
  /\ UNCHANGED aggVars /\ UNCHANGED extractVars /\ UNCHANGED retrieveVars /\ UNCHANGED concVars

NextCompare ==
  \/ StartCompare
  \/ CompareBaseline
  \/ CompareTraining
  \/ CompareSleep
  \/ CompareSummary

SpecCompare == InitCompare /\ [][NextCompare]_vars

(***************************************************************************)
(* Two processes run label_training_batch.main at the same time on the     *)
(* same training_data/labels.json (the directory exists).  Each has its    *)
(* own in-memory store; the file is the only thing they share, and nothing *)
(* in the code locks it.                                                   *)
(***************************************************************************)
seqVars == <<statsFile, labels, pc, entry, apiKey, to_label, idx, called, runs, after, pending>>

InitConc ==
  /\ disk = NoFile("absent") /\ labels = EmptyStore
  /\ InitIdleStore /\ InitIdleAgg /\ InitIdleExtract /\ InitIdleRetrieve /\ InitIdleConc

\* main, from its start to the head of the loop
ConcStart(p) ==
  /\ procs[p].pc = "idle"
  /\ \E key \in BOOLEAN :
       IF ~key
       THEN procs' = [procs EXCEPT ![p].pc = "done"]
       ELSE IF LoadRaises
       THEN procs' = [procs EXCEPT ![p].pc = "aborted"]
       ELSE LET loaded == LoadedStore
                labeled_paths == ImagePaths(loaded.images)
                todo == SelectSeq(TRAINING_DIR,
                           LAMBDA f : PathStr("training_images", f) \notin labeled_paths)
            IN procs' = [procs EXCEPT ![p].labels = loaded,
                                      ![p].to_label = todo,
                                      ![p].pc = IF todo = <<>> THEN "done" ELSE "call",
                                      ![p].idx = IF todo = <<>> THEN 0 ELSE 1]
  /\ UNCHANGED <<disk, durable>>
  /\ UNCHANGED seqVars /\ UNCHANGED aggVars /\ UNCHANGED extractVars /\ UNCHANGED retrieveVars

\* one pass through label_image up to the append
ConcLabel(p) ==
  /\ procs[p].pc = "call"
  /\ LET f == procs[p].to_label[procs[p].idx]
         path == PathStr("training_images", f)
     IN \/ procs' = [procs EXCEPT ![p].pc = "sleep"]
        \/ \E reply \in Replies :
             LET label == AddMetadata(label_image_parse(reply), extract_camera_id(f), path)
             IN procs' = [procs EXCEPT ![p].labels.images = Append(@, label),
                                       ![p].pc = "save_open",
                                       ![p].after = "sleep"]
  /\ UNCHANGED <<disk, durable>>
  /\ UNCHANGED seqVars /\ UNCHANGED aggVars /\ UNCHANGED extractVars /\ UNCHANGED retrieveVars

\* save_labels, first half: open(LABELS_FILE, "w") truncates the document
ConcSaveOpen(p) ==
  /\ procs[p].pc = "save_open"
  /\ disk' = NoFile("partial")
  /\ procs' = [procs EXCEPT ![p].pc = "save_dump"]
  /\ UNCHANGED durable
  /\ UNCHANGED seqVars /\ UNCHANGED aggVars /\ UNCHANGED extractVars /\ UNCHANGED retrieveVars

\* a save that keeps what the last complete document held and adds the
\* labels of its own that the document lacks
ConcSaveDump_merging(p) ==
  /\ procs[p].pc = "save_dump"
  /\ LET own == procs[p].labels
         merged == durable \o SelectSeq(own.images, LAMBDA l : l \notin {durable[i] : i \in 1..Len(durable)})
     IN /\ disk' = [status |-> "ok", images |-> merged, sites |-> own.sites]
        /\ durable' = merged
        /\ procs' = [procs EXCEPT ![p].pc = procs[p].after, ![p].saved = merged]
  /\ UNCHANGED seqVars /\ UNCHANGED aggVars /\ UNCHANGED extractVars /\ UNCHANGED retrieveVars

\* save_labels, second half: json.dump writes the process's whole store
\* from offset 0.  When the other process has written the file since this
\* one opened it, the text is laid over the other's: the document is this
\* process's store if its text is the longer one and unreadable otherwise
\* (the model does not track text lengths: either outcome is possible)
ConcSaveDump(p) ==
  /\ procs[p].pc = "save_dump"
  /\ LET own == procs[p].labels
         written == [status |-> "ok", images |-> own.images, sites |-> own.sites]
     IN /\ disk' \in IF disk.status = "partial" THEN {written}
                     ELSE {written, NoFile("partial")}
        /\ durable' = IF disk'.status = "ok" THEN own.images ELSE durable
        /\ procs' = [procs EXCEPT ![p].pc = procs[p].after,
                                  ![p].saved = IF disk'.status = "ok" THEN own.images ELSE @]
  /\ UNCHANGED seqVars /\ UNCHANGED aggVars /\ UNCHANGED extractVars /\ UNCHANGED retrieveVars

\* time.sleep(1), then the next image or the statistics step
ConcSleep(p) ==
  /\ procs[p].pc = "sleep"
  /\ procs' = [procs EXCEPT ![p].idx = @ + 1,
                            ![p].pc = IF procs[p].idx < Len(procs[p].to_label)
                                      THEN "call" ELSE "stats"]
  /\ UNCHANGED <<disk, durable>>
  /\ UNCHANGED seqVars /\ UNCHANGED aggVars /\ UNCHANGED extractVars /\ UNCHANGED retrieveVars

\* main lines 205-208, up to the final save
ConcStats(p) ==
  /\ procs[p].pc = "stats"
  /\ LET r == compute_site_stats(procs[p].labels)
     IN IF r.raised
        THEN procs' = [procs EXCEPT ![p].pc = "aborted"]
        ELSE procs' = [procs EXCEPT ![p].labels.sites = r.sites,
                                    ![p].pc = "save_open",
                                    ![p].after = "done"]
  /\ UNCHANGED <<disk, durable>>
  /\ UNCHANGED seqVars /\ UNCHANGED aggVars /\ UNCHANGED extractVars /\ UNCHANGED retrieveVars

NextConc ==
  \E p \in ProcIds :
     \/ ConcStart(p)
     \/ ConcLabel(p)
     \/ ConcSaveOpen(p)
     \/ ConcSaveDump(p)
     \/ ConcSleep(p)
     \/ ConcStats(p)

SpecConc == InitConc /\ [][NextConc]_vars

(***************************************************************************)
(* Properties of the label store (specification Spec).                     *)
(***************************************************************************)
IsPrefix(a, b) == Len(a) <= Len(b) /\ SubSeq(b, 1, Len(a)) = a

NoDuplicatePaths(images) ==
  \A i, j \in 1..Len(images) :
     DictGet(images[i], "image_path") = DictGet(images[j], "image_path") => i = j

\* C1: after any sequence of labeling operations over any number of runs of
\* either entry point, no two labels of the store (in memory or persisted)
\* share an image_path.
C1_UniqueImagePath ==
  NoDuplicatePaths(labels.images) /\ NoDuplicatePaths(PersistedImages)

\* C2: no run hands to the external model a path that is already in the
\* persisted store: every step that issues a call issues it for a path
\* that is not among the persisted image paths.
C2_NoCallForStoredPath ==
  [][Len(called') > Len(called)
       => called'[Len(called')] \notin ImagePaths(PersistedImages)]_vars

\* C3: whenever the process has stopped (crashed or ended), the persisted
\* document is not a partially written one and still holds every label of
\* the last completed save.
C3_CrashSafeSave ==
  ~Running => (disk.status # "partial" /\ IsPrefix(durable, PersistedImages))

\* C4: whenever the next external model call is about to be issued, the
\* persisted images equal the in-memory images.
C4_PersistedBeforeNextCall ==
  pc = "call" => PersistedImages = labels.images

\* C14: a failed model call is local to its image: the step in which the
\* call fails (or is not made for want of credentials) adds no label and
\* leaves the in-memory and the persisted store as they were, and the
\* delay that follows hands the loop to the next image, or to the
\* statistics step after the last one.
C14_FailedCallIsLocal ==
  [][ /\ (pc = "call" /\ pc' = "sleep") => (labels' = labels /\ disk' = disk)
      /\ (pc = "sleep" /\ pc' \notin {"sleep", "idle"}) =>
            /\ labels' = labels /\ disk' = disk
            /\ idx' = idx + 1
            /\ pc' = IF idx < Len(to_label) THEN "call" ELSE "stats" ]_vars

C14_Witness ==
  /\ pc = "call" /\ idx = 2 /\ apiKey
  /\ Len(called) = 1
  /\ labels.images = <<>> /\ disk = NoFile("absent")

\* C16: a run started on a persisted document that exists but cannot be
\* read leaves the document as it is, issues no external model call and
\* stops at once: it aborts at the load (the batch script without
\* credentials returns before the load).
C16_CorruptStoreAborts ==
  [][ (disk.status = "partial" /\ ~Running) =>
         /\ disk' = disk
         /\ runs' > runs =>
              /\ called' = <<>> /\ ~Running'
              /\ (pc' = "aborted" \/ (entry' = "batch" /\ ~apiKey')) ]_vars

C16_Witness ==
  /\ pc = "aborted" /\ apiKey /\ runs = 2
  /\ disk.status = "partial" /\ durable # <<>>
  /\ called = <<>>

\* C17: in a first run, started with nothing persisted, once the loop is
\* over every label built from a model reply is in the persisted store,
\* and the run aborts only if the statistics step itself raises.
C17_FirstRunKeepsLabels ==
  (runs = 1 /\ pc \in {"stats", "stats_file", "done", "aborted"}) =>
     /\ ImagePaths(labels.images) \subseteq ImagePaths(PersistedImages)
     /\ pc = "aborted" =>
          (IF entry = "batch" THEN compute_site_stats(labels)
           ELSE compute_site_statistics(labels)).raised

\* C18: images is append-only: within a run the in-memory images only grow
\* at the end, and whenever no save is in progress the persisted document
\* still starts with the images of every save completed before.
C18_ImagesAppendOnly ==
  [][ /\ (runs' = runs /\ pc' # "idle") => IsPrefix(labels.images, labels'.images)
      /\ pc' # "save_dump" => IsPrefix(durable, PersistedImages') ]_vars

\* C19: in a loop that calls the external model, no call is issued while
\* an earlier call of the run has not been followed by a delay.
C19_DelayBetweenCalls ==
  [][Len(called') > Len(called) => ~pending]_vars

(***************************************************************************)
(* Properties of the statistics aggregator (specification SpecAgg).        *)
(***************************************************************************)
Recomputed == aggRuns >= 1 /\ ~aggRaised

\* the aggregator under test applied to a store
ComputeBy(store) ==
  IF impl = "batch" THEN compute_site_stats(store) ELSE compute_site_statistics(store)

RemoveAt(seq, i) == SubSeq(seq, 1, i - 1) \o SubSeq(seq, i + 1, Len(seq))

\* the truck_count (or occupancy_percent) values of the labels of camera
\* cam, read from the labels themselves
ValuesOf(images, cam, field) ==
  LET RECURSIVE go(_)
      go(i) == IF i > Len(images) THEN <<>>
               ELSE IF DictGet(images[i], "camera_id") = cam
                       /\ DictGet(images[i], field).kind = "int"
                    THEN <<DictGet(images[i], field).v>> \o go(i + 1)
                    ELSE go(i + 1)
  IN go(1)

LabelsOf(images, cam) ==
  Cardinality({i \in 1..Len(images) : DictGet(images[i], "camera_id") = cam})

TruckFields == {"avg_truck_count", "max_truck_count", "min_truck_count"}

Restrict(d, keys) == [k \in (DOMAIN d) \cap keys |-> d[k]]

\* C5: recompute is deterministic and idempotent: applied again to a store
\* whose images are unchanged and whose sites came from a recompute, it
\* yields the same sites mapping (same keys in the same order, same samples
\* and aggregates) and the same outcome.
C5_RecomputeIdempotent ==
  [][aggRuns >= 1 /\ aggRuns' > aggRuns
       => labels'.sites = labels.sites /\ aggRaised' = aggRaised]_vars

C5_Witness ==
  /\ aggRuns = 2 /\ ~aggRaised
  /\ Len(labels.sites) = 2
  /\ Len(labels.images) = MaxImages

\* C6: in every site a recompute produced, a label without truck_count but
\* with occupancy_percent counts in sample_count and in avg_occupancy and
\* leaves the truck aggregates as a recompute without that label gives them
\* (compared whenever the site still exists without the label); and the
\* same with the two fields exchanged.
C6_MissingFieldExclusion ==
  Recomputed =>
    \A i \in 1..Len(labels.images) :
      LET label == labels.images[i]
          cam == DictGet(label, "camera_id")
          tc == DictGet(label, "truck_count")
          oc == DictGet(label, "occupancy_percent")
          others == RemoveAt(labels.images, i)
          rest == ComputeBy([images |-> others, sites |-> <<>>])
          k == SiteIndex(rest.sites, cam)
          site == labels.sites[SiteIndex(labels.sites, cam)].stats
      IN /\ ~rest.raised
         /\ site.sample_count = PyInt(LabelsOf(others, cam) + 1)
         /\ (tc.kind = "none" /\ oc.kind = "int") =>
              /\ site.avg_occupancy
                   = Average(ValuesOf(others, cam, "occupancy_percent") \o <<oc.v>>)
              /\ k # 0 => Restrict(site, TruckFields)
                            = Restrict(rest.sites[k].stats, TruckFields)
         /\ (oc.kind = "none" /\ tc.kind = "int") =>
              /\ site.avg_truck_count
                   = Average(ValuesOf(others, cam, "truck_count") \o <<tc.v>>)
              /\ k # 0 => site.avg_occupancy = rest.sites[k].stats.avg_occupancy

C6_Witness ==
  /\ Recomputed
  /\ \E i, j, m \in 1..Len(labels.images) :
       /\ labels.images[i] = AggLabel(<<CamX, NoCountReply>>, i)
       /\ labels.images[j] = AggLabel(<<CamX, SnowReply>>, j)
       /\ labels.images[m] = AggLabel(<<CamX, NoOccReply>>, m)
  /\ labels.sites[1].stats.avg_truck_count = PyFloat(6, 1)
  /\ labels.sites[1].stats.avg_occupancy = PyFloat(40, 1)
  /\ labels.sites[1].stats.sample_count = PyInt(3)

\* C7: for every site a recompute produced, sample_count is the number of
\* labels of that camera, avg_truck_count, max_truck_count and
\* min_truck_count are all present, and where the group has truck counts
\* they are the mean, the maximum and the minimum of those counts.
C7_TruckAggregates ==
  Recomputed =>
    \A k \in 1..Len(labels.sites) :
      LET site == labels.sites[k].stats
          counts == ValuesOf(labels.images, labels.sites[k].key, "truck_count")
      IN /\ site.sample_count = PyInt(LabelsOf(labels.images, labels.sites[k].key))
         /\ TruckFields \subseteq DOMAIN site
         /\ counts # <<>> =>
              /\ site.avg_truck_count = PyFloat(SeqSum(counts), Len(counts))
              /\ site.max_truck_count = PyInt(SeqMax(counts))
              /\ site.min_truck_count = PyInt(SeqMin(counts))

IsZero(val) ==
  \/ val.kind = "int" /\ val.v = 0
  \/ val.kind = "float" /\ val.v[1] = 0

\* C8: no site a recompute produced reports 0 for avg_truck_count,
\* max_truck_count, min_truck_count or avg_occupancy unless 0 results from
\* values its labels carry: a site none of whose labels has the field does
\* not report 0 for it.
C8_NoZeroForMissing ==
  Recomputed =>
    \A k \in 1..Len(labels.sites) :
      LET site == labels.sites[k].stats
          cam == labels.sites[k].key
      IN /\ \A f \in TruckFields \cap DOMAIN site :
              IsZero(site[f]) => ValuesOf(labels.images, cam, "truck_count") # <<>>
         /\ IsZero(site.avg_occupancy)
              => ValuesOf(labels.images, cam, "occupancy_percent") # <<>>

\* C15: the statistics step completes on every images sequence the
\* labeling step can produce, labels built from an unparsed reply
\* included: no recompute raises.
C15_RecomputeCompletes ==
  aggRuns >= 1 => ~aggRaised

(***************************************************************************)
(* Properties of the response extractor (specification SpecExtract).       *)
(***************************************************************************)
\* 1-based positions of the first "{" and of the last "}"
FirstOpen(t) == CHOOSE i \in 1..Len(t) : t[i] = LBrace /\ \A j \in 1..(i - 1) : t[j] # LBrace
LastClose(t) == CHOOSE i \in 1..Len(t) : t[i] = RBrace /\ \A j \in (i + 1)..Len(t) : t[j] # RBrace

BracesInOrder(t) ==
  /\ \E i \in 1..Len(t) : t[i] = LBrace
  /\ \E i \in 1..Len(t) : t[i] = RBrace
  /\ FirstOpen(t) < LastClose(t)

Braced(t) == SubSeq(t, FirstOpen(t), LastClose(t))

Parseable(t) == BracesInOrder(t) /\ json_loads(Braced(t)).ok

\* C9: for every text with a "{" before the last "}", what is parsed is
\* the substring from the first "{" to the last "}" inclusive: when it is
\* a valid object the result is that object, whatever surrounds it, and
\* when it is not the result is not an object parsed from anything else.
C9_ExtractParsed ==
  (extracted /\ BracesInOrder(text)) =>
     LET parsed == json_loads(Braced(text))
     IN IF parsed.ok THEN result = parsed.obj
        ELSE "raw_response" \in DOMAIN result /\ result["raw_response"] = PyStr(text)

C9_Witness ==
  /\ extracted
  /\ text = <<Prose, LBrace, "t4", RBrace, Prose>>
  /\ result = [truck_count |-> PyInt(4)]

\* C10: for every text without a parseable brace-delimited substring the
\* extractor returns the original text verbatim together with a flag
\* marking it unparsed.
C10_ExtractRaw ==
  (extracted /\ ~Parseable(text)) =>
     /\ "raw_response" \in DOMAIN result /\ result["raw_response"] = PyStr(text)
     /\ "parse_error" \in DOMAIN result /\ result["parse_error"] = PyBool(TRUE)

(***************************************************************************)
(* Properties of the retriever (specification SpecRetrieve).               *)
(***************************************************************************)
KnowledgeFields == {"name", "avg_capacity", "avg_occupancy", "detection_tips", "sample_count"}

\* C11: site_knowledge is total: for every camera id, with or without
\* statistics, and every store reached by record and recompute, the call
\* does not fail and its result has exactly the five fields name,
\* avg_capacity, avg_occupancy, detection_tips and sample_count.
C11_KnowledgeTotal ==
  query.op = "knowledge" =>
     /\ ~knowledge.raised
     /\ DOMAIN knowledge.value = KnowledgeFields

C11_Witness ==
  /\ query.op = "knowledge" /\ query.camera_id = UnknownCam
  /\ SiteIndex(labels.sites, PyStr(CamX)) # 0
  /\ Len(labels.images) > Len(labels.sites[1].stats.samples)
  /\ ~knowledge.raised /\ knowledge.value.sample_count = PyInt(0)

\* C12 as stated: for a camera id without statistics every field of the
\* result is a placeholder, name and avg_capacity being "Unknown".
C12_FallbackUnknown ==
  (query.op = "knowledge" /\ SiteIndex(labels.sites, query.camera_id) = 0) =>
     /\ knowledge.value.name = Unknown
     /\ knowledge.value.avg_capacity = Unknown
     /\ knowledge.value.avg_occupancy = PyInt(0)
     /\ knowledge.value.sample_count = PyInt(0)
     /\ knowledge.value.detection_tips = GenericTip

\* C12 amended: for a camera id without statistics the result carries the
\* camera id itself as name, "Unknown" as avg_capacity, 0 as avg_occupancy
\* and sample_count, and the generic tip as detection_tips.
C12_FallbackCameraId ==
  (query.op = "knowledge" /\ SiteIndex(labels.sites, query.camera_id) = 0) =>
     /\ knowledge.value.name = query.camera_id
     /\ knowledge.value.avg_capacity = Unknown
     /\ knowledge.value.avg_occupancy = PyInt(0)
     /\ knowledge.value.sample_count = PyInt(0)
     /\ knowledge.value.detection_tips = GenericTip

C12_Witness ==
  /\ query.op = "knowledge" /\ query.camera_id = UnknownCam
  /\ labels = EmptyStore
  /\ knowledge.value.name = UnknownCam
  /\ knowledge.value.avg_capacity = Unknown

\* the samples of camera cam in the sites mapping
SamplesOf(store, cam) ==
  LET k == SiteIndex(store.sites, cam)
  IN IF k = 0 THEN <<>> ELSE store.sites[k].stats.samples

Min(a, b) == IF a < b THEN a ELSE b

\* C13: for every camera id and every n >= 0, recent_examples returns the
\* last min(n, number of samples) entries of the site's samples, in their
\* order, hence never more than n entries, and nothing for a camera
\* without statistics.
C13_LastNExamples ==
  query.op = "examples" =>
     LET samples == SamplesOf(labels, query.camera_id)
         m == Min(query.n, Len(samples))
     IN /\ examples = SubSeq(samples, Len(samples) - m + 1, Len(samples))
        /\ Len(examples) <= query.n

(***************************************************************************)
(* Properties of two concurrent batch processes (specification SpecConc).  *)
(***************************************************************************)
\* C20: the store is read-modify-write without locking: a save that
\* completes leaves in the persisted document exactly the images of the
\* saving process's memory, whatever the document held before; so there is
\* an interleaving (C20_LostUpdate) after which a label one process had
\* persisted is missing from the document the other process saved.
C20_SaveWritesOwnMemory ==
  [][\A p \in ProcIds :
       (procs[p].pc = "save_dump" /\ procs'[p].pc # "save_dump" /\ disk'.status = "ok")
          => disk'.images = procs[p].labels.images]_vars

C20_LostUpdate ==
  \E p, q \in ProcIds :
     /\ p # q
     /\ disk.status = "ok" /\ disk.images = procs[q].saved
     /\ \E i \in 1..Len(procs[p].saved) :
          /\ procs[p].saved[i] \notin {disk.images[j] : j \in 1..Len(disk.images)}
          /\ DictGet(procs[p].saved[i], "image_path") \notin ImagePaths(disk.images)

\* C21: the prompt shows the first 3 of the examples passed to it, or all
\* of them when there are fewer, and the notes of each example shown are
\* its first 100 characters, or all of them when there are fewer.
C21_PromptCuts ==
  (query.op = "prompt" /\ ~prompt.raised) =>
     LET blocks == prompt.value.examples_text
     IN /\ Len(blocks) = Min(3, Len(examples)) /\ Len(blocks) <= 3
        /\ \A i \in 1..Len(blocks) :
             LET notes == examples[i].detailed_notes.v
             IN /\ Len(blocks[i].notes) = Min(100, Len(notes))
                /\ Len(blocks[i].notes) <= 100
                /\ blocks[i].notes = SubSeq(notes, 1, Len(blocks[i].notes))

C21_Witness ==
  /\ query.op = "prompt" /\ ~prompt.raised
  /\ Len(examples) > 3 /\ Len(prompt.value.examples_text) = 3
  /\ \E i \in 1..3 :
       /\ Len(examples[i].detailed_notes.v) > 100
       /\ Len(prompt.value.examples_text[i].notes) = 100

\* C29: for every store reached by recording labels and recomputing, and
\* every camera id, retrieving the site knowledge and the recent examples
\* and composing the prompt from them completes without error, also when
\* labels of the store lack detailed_notes.
C29_PromptCompletes ==
  query.op = "prompt" => (~knowledge.raised /\ ~prompt.raised)

C29_Witness ==
  /\ query.op = "prompt" /\ ~knowledge.raised /\ ~prompt.raised
  /\ \E i \in 1..Len(labels.images) :
       /\ "detailed_notes" \notin DOMAIN labels.images[i]
       /\ DictGet(labels.images[i], "camera_id") = query.camera_id
  /\ examples # <<>>
  /\ prompt.value.examples_text # <<>>

\* the camera ids that occur in images, and the keys of a sites mapping
CameraIds(images) ==
  {DictGet(images[i], "camera_id") : i \in {j \in 1..Len(images) : Truthy(DictGet(images[j], "camera_id"))}}

SiteKeys(sites) == {sites[k].key : k \in 1..Len(sites)}

\* a step of the retriever's store that is a recompute which completed
RecomputeStep ==
  /\ query'.op = "none" /\ ~aggRaised'
  /\ Len(labels'.images) <= Len(labels.images)

\* C22: a recompute that completes leaves images as it was and replaces
\* sites wholesale: the keys of the new mapping are exactly the camera ids
\* of images, each once, every site holds as many samples as its camera has
\* labels, and the mapping is the one a recompute from an empty sites
\* mapping yields, so that nothing of the previous mapping is kept.
C22_RecomputeReplacesSites ==
  [][RecomputeStep =>
       /\ labels'.images = labels.images
       /\ SiteKeys(labels'.sites) = CameraIds(labels.images)
       /\ Len(labels'.sites) = Cardinality(CameraIds(labels.images))
       /\ \A k \in 1..Len(labels'.sites) :
            Len(labels'.sites[k].stats.samples)
               = LabelsOf(labels.images, labels'.sites[k].key)
       /\ labels'.sites = ComputeBy([images |-> labels.images, sites |-> <<>>]).sites]_vars

C22_Witness ==
  /\ query.op = "none" /\ ~aggRaised
  /\ Len(labels.images) = MaxImages /\ Len(labels.sites) = 2
  /\ SiteKeys(labels.sites) = CameraIds(labels.images)
  /\ labels.sites[1].stats.sample_count = PyInt(MaxImages - 1)

\* the labels of camera cam, in the order images holds them
LabelsOfCamera(images, cam) ==
  SelectSeq(images, LAMBDA label : DictGet(label, "camera_id") = cam)

SampleFields == {"truck_count", "occupancy_percent", "weather", "time_of_day", "detailed_notes"}

\* C23: in every site a recompute produced, samples is the subsequence of
\* images with that camera_id, in the same relative order, each label
\* reduced to its truck_count, occupancy_percent, weather, time_of_day and
\* detailed_notes (None where the label has none).
C23_SamplesInLabelingOrder ==
  Recomputed =>
    \A k \in 1..Len(labels.sites) :
      LET own == LabelsOfCamera(labels.images, labels.sites[k].key)
          samples == labels.sites[k].stats.samples
      IN /\ Len(samples) = Len(own)
         /\ \A j \in 1..Len(own) :
              /\ DOMAIN samples[j] = SampleFields
              /\ \A f \in SampleFields : samples[j][f] = DictGet(own[j], f)

C23_Witness ==
  /\ Recomputed
  /\ Len(labels.images) >= 3
  /\ labels.images[1] = AggLabel(<<CamX, FullReply>>, 1)
  /\ labels.images[2] = AggLabel(<<CamY, ZeroReply>>, 2)
  /\ labels.images[3] = AggLabel(<<CamX, SnowReply>>, 3)
  /\ Len(labels.sites) = 2
  /\ labels.sites[1].stats.samples[1].truck_count = PyInt(3)
  /\ labels.sites[1].stats.samples[2].truck_count = PyInt(5)
  /\ labels.sites[1].stats.samples[2].weather = PyNone

\* the notes of a label contain "snow" in some letter case
MentionsSnow(label) ==
  LET notes == DictGet(label, "detailed_notes")
  IN notes.kind = "str" /\ Contains(Lower(notes.v), Snow)

\* C24: in every site a recompute produced, detection_tips is the winter
\* tip exactly when the notes of at least one label of that camera contain
\* "snow" in some letter case, and the standard tip otherwise; notes of two
\* labels that only together spell "snow" do not select the winter tip.
C24_DetectionTipRule ==
  Recomputed =>
    \A k \in 1..Len(labels.sites) :
      LET own == LabelsOfCamera(labels.images, labels.sites[k].key)
          tips == labels.sites[k].stats.detection_tips
      IN IF \E j \in 1..Len(own) : MentionsSnow(own[j])
         THEN tips = WinterTip
         ELSE tips = StandardTip

C24_Witness ==
  /\ Recomputed
  /\ Len(labels.images) >= 3
  /\ labels.images[1] = AggLabel(<<CamX, SnReply>>, 1)
  /\ labels.images[2] = AggLabel(<<CamX, OwReply>>, 2)
  /\ labels.images[3] = AggLabel(<<CamY, SnowReply>>, 3)
  /\ \A i \in 1..Len(labels.images) :
       DictGet(labels.images[i], "camera_id") = PyStr(CamX) => ~MentionsSnow(labels.images[i])
  /\ labels.sites[1].stats.detection_tips = StandardTip
  /\ labels.sites[2].stats.detection_tips = WinterTip

(***************************************************************************)
(* Properties of whole runs (specification Spec).                          *)
(***************************************************************************)
\* what json.load would return as sites from the persisted document
PersistedSites == IF disk.status = "ok" THEN disk.sites ELSE <<>>

\* the aggregator of the script that ran, applied to the persisted images
RecomputePersisted ==
  LET store == [images |-> PersistedImages, sites |-> <<>>]
  IN IF entry = "batch" THEN compute_site_stats(store) ELSE compute_site_statistics(store)

\* C25: whenever a run of either labeling script has ended normally, the
\* persisted sites mapping is the recompute of the persisted images, also
\* when an earlier run was terminated between the save of its last label
\* and the save of its statistics, and when the run found nothing to label.
C25_StatisticsFresh ==
  pc = "done" => (~RecomputePersisted.raised /\ PersistedSites = RecomputePersisted.sites)

\* the label of path in images (PyNone-valued EmptyDict when there is none)
LabelAt(images, path) ==
  IF \E i \in 1..Len(images) : DictGet(images[i], "image_path") = path
  THEN images[CHOOSE i \in 1..Len(images) : DictGet(images[i], "image_path") = path]
  ELSE EmptyDict

\* the paths list(TRAINING_DIR.glob(...)) yields
TrainingPaths == {PathStr("training_images", TRAINING_DIR[i]) : i \in 1..Len(TRAINING_DIR)}

\* C26: in a run of the batch script, (1) the step that attempts an image
\* adds a label of its path to the in-memory images exactly when the call
\* returned a reply, and a reply that cannot be parsed gives a label with
\* the raw text and the parse_error flag; (2) when the loop is over, each
\* attempted path is in the persisted store exactly when its call returned
\* a reply; (3) the next batch run that gets to its loop does not schedule
\* the attempted paths whose call returned a reply and schedules those
\* whose call failed.
C26_StoredIffReplied ==
  [][ /\ (entry = "batch" /\ pc = "call" /\ pc' # "idle") =>
            LET path == called'[Len(called')]
                stored == LabelAt(labels'.images, path)
            IN /\ Len(called') = Len(called) + 1
               /\ path \in TrainingPaths
               /\ path \notin ImagePaths(labels.images)
               /\ (pc' = "save_open") <=> (path \in ImagePaths(labels'.images))
               /\ (pc' = "save_open" /\ "truck_count" \notin DOMAIN stored) =>
                     /\ DictGet(stored, "parse_error") = PyBool(TRUE)
                     /\ DictGet(stored, "raw_response").kind = "str"
      /\ (entry = "batch" /\ pc = "sleep" /\ pc' = "stats") =>
            \A i \in 1..Len(called) :
               (called[i] \in ImagePaths(labels.images))
                 <=> (called[i] \in ImagePaths(PersistedImages))
      /\ (entry = "batch" /\ pc \in {"done", "aborted"} /\ runs' > runs
            /\ entry' = "batch" /\ pc' \in {"call", "done"} /\ apiKey') =>
            \A i \in 1..Len(called) :
               LET scheduled == \E j \in 1..Len(to_label') :
                                  PathStr("training_images", to_label'[j]) = called[i]
               IN scheduled <=> (called[i] \notin ImagePaths(labels.images)) ]_vars

\* the aggregator that is not under test, applied to a store
ComputeByOther(store) ==
  IF impl = "batch" THEN compute_site_statistics(store) ELSE compute_site_stats(store)

\* C27: on every images sequence the two aggregators give the same
\* outcome: the sites mapping one of them produced is the mapping the
\* other one produces from the same images (same sites in the same order,
\* same samples, same aggregate fields with the same values).
C27_AggregatorsAgree ==
  aggRuns >= 1 =>
    LET other == ComputeByOther([images |-> labels.images, sites |-> <<>>])
    IN /\ other.raised = aggRaised
       /\ ~aggRaised => labels.sites = other.sites

(***************************************************************************)
(* The copies of the response extractor compared (SpecExtract).            *)
(***************************************************************************)
\* the result is the fallback for an unparsed text
IsRaw(r) == "raw_response" \in DOMAIN r \/ "raw" \in DOMAIN r

HasCameraId(label) ==
  LET camera_id == DictGet(label, "camera_id")
  IN camera_id.kind = "str" /\ camera_id.v # <<>>

\* C30: after a recompute that completed, every label with a non-empty
\* camera_id has exactly one site, keyed by its camera id, whose samples
\* are the labels of that camera and of no other; no site is keyed by an
\* empty camera id, so labels without one are in no samples; every site
\* has sample_count = Len(samples) >= 1; and the sample counts add up to
\* the number of labels that have a camera_id.
C30_RecomputePartitions ==
  Recomputed =>
    /\ \A i \in 1..Len(labels.images) :
         HasCameraId(labels.images[i]) =>
           Cardinality({k \in 1..Len(labels.sites) :
                          labels.sites[k].key = DictGet(labels.images[i], "camera_id")}) = 1
    /\ \A k \in 1..Len(labels.sites) :
         LET site == labels.sites[k]
             own == LabelsOfCamera(labels.images, site.key)
         IN /\ site.key.kind = "str" /\ site.key.v # <<>>
            /\ Len(site.stats.samples) = Len(own)
            /\ \A j \in 1..Len(own) :
                 \A f \in SampleFields : site.stats.samples[j][f] = DictGet(own[j], f)
            /\ site.stats.sample_count = PyInt(Len(site.stats.samples))
            /\ Len(site.stats.samples) >= 1
    /\ SeqSum([k \in 1..Len(labels.sites) |-> labels.sites[k].stats.sample_count.v])
         = Cardinality({i \in 1..Len(labels.images) : HasCameraId(labels.images[i])})

C30_Witness ==
  /\ Recomputed
  /\ Len(labels.images) = MaxImages
  /\ ~HasCameraId(labels.images[2])
  /\ \A i \in 1..Len(labels.images) : i # 2 => HasCameraId(labels.images[i])
  /\ Len(labels.sites) = 2
  /\ labels.sites[1].stats.sample_count = PyInt(MaxImages - 2)
  /\ labels.sites[2].stats.sample_count = PyInt(1)
====
